---- MODULE Spec2Model ----
(***************************************************************************)
(* Model of the Lagatrix REST gateway: the auth_user dependency            *)
(* (api/dependencies.py) and the route handlers of api/endpoints/*.py.     *)
(* One request is a small state machine:                                   *)
(*   idle -> auth -> init -> handler -> op1 [-> op2] -> done               *)
(* The domain managers and CommandManager.init are external collaborators: *)
(* their outcome is chosen by the environment among the outcomes the       *)
(* calling code provides for.                                              *)
(***************************************************************************)
EXTENDS Integers, Sequences, FiniteSets, TLC

\* ------------------------------------------------------------------ bounds
\* longest password header value that is enumerated (in characters)
MaxLen == 4

\* ------------------------------------------------------------- characters
\* Header characters are code points. The enumerated alphabet holds
\* 'Y' 'Q' '/' 'w' 'r' (base64 digits), '=' (pad), '!' (ASCII, not a base64
\* digit) and U+00E9 (not ASCII).
Chars == {89, 81, 47, 119, 114, 61, 33, 233}

\* binascii's table_a2b_base64: the sextet of a base64 digit, 64 otherwise
A2B(c) ==
    IF c \in 65..90 THEN c - 65
    ELSE IF c \in 97..122 THEN c - 71
    ELSE IF c \in 48..57 THEN c + 4
    ELSE IF c = 43 THEN 62
    ELSE IF c = 47 THEN 63
    ELSE 64

\* binascii.a2b_base64 (non-strict mode, as base64.b64decode calls it):
\* st = [q |-> quad_pos, left |-> leftchar, pads |-> pads, out |-> bytes,
\*       done |-> a pad sequence closed the input]
RECURSIVE A2BLoop(_, _, _)
A2BLoop(s, i, st) ==
    IF i > Len(s) \/ st.done THEN st
    ELSE IF s[i] = 61
         THEN IF st.q >= 2
              THEN IF st.q + st.pads + 1 >= 4
                   THEN [st EXCEPT !.pads = @ + 1, !.done = TRUE]
                   ELSE A2BLoop(s, i + 1, [st EXCEPT !.pads = @ + 1])
              ELSE A2BLoop(s, i + 1, st)
    ELSE IF A2B(s[i]) >= 64
         THEN A2BLoop(s, i + 1, st)
    ELSE LET v == A2B(s[i]) IN
         A2BLoop(s, i + 1,
            CASE st.q = 0 -> [st EXCEPT !.q = 1, !.left = v, !.pads = 0]
              [] st.q = 1 -> [st EXCEPT !.q = 2, !.left = v % 16, !.pads = 0,
                                        !.out = Append(@, (st.left * 4 + v \div 16) % 256)]
              [] st.q = 2 -> [st EXCEPT !.q = 3, !.left = v % 4, !.pads = 0,
                                        !.out = Append(@, (st.left * 16 + v \div 4) % 256)]
              [] st.q = 3 -> [st EXCEPT !.q = 0, !.left = 0, !.pads = 0,
                                        !.out = Append(@, (st.left * 64 + v) % 256)])

\* base64.b64decode(password): [err |-> "" | exception class, msg, bytes]
B64Decode(s) ==
    IF \E i \in 1..Len(s) : s[i] > 127
    THEN [err |-> "ValueError", msg |-> "string argument should contain only ASCII characters",
          bytes |-> <<>>]
    ELSE LET st == A2BLoop(s, 1, [q |-> 0, left |-> 0, pads |-> 0, out |-> <<>>,
                                  done |-> FALSE])
         IN IF st.done \/ st.q = 0
            THEN [err |-> "", msg |-> "", bytes |-> st.out]
            ELSE IF st.q = 1
            THEN [err |-> "binascii.Error",
                  msg |-> "Invalid base64-encoded string: number of data characters cannot be 1 more than a multiple of 4",
                  bytes |-> <<>>]
            ELSE [err |-> "binascii.Error", msg |-> "Incorrect padding", bytes |-> <<>>]

IsCont(b) == b \in 128..191

\* bytes.decode('utf-8'), strict: the code points, or ok = FALSE
\* (UnicodeDecodeError) at the first ill-formed sequence
RECURSIVE Utf8Loop(_, _, _)
Utf8Loop(b, i, acc) ==
    IF i > Len(b) THEN [ok |-> TRUE, text |-> acc]
    ELSE LET c == b[i]
             has(k) == i + k <= Len(b)
         IN
         IF c < 128 THEN Utf8Loop(b, i + 1, Append(acc, c))
         ELSE IF c \in 194..223
              THEN IF has(1) /\ IsCont(b[i + 1])
                   THEN Utf8Loop(b, i + 2, Append(acc, (c - 192) * 64 + (b[i + 1] - 128)))
                   ELSE [ok |-> FALSE, text |-> <<>>]
         ELSE IF c \in 224..239
              THEN IF has(2) /\ IsCont(b[i + 1]) /\ IsCont(b[i + 2])
                      /\ (c = 224 => b[i + 1] >= 160)
                      /\ (c = 237 => b[i + 1] <= 159)
                   THEN Utf8Loop(b, i + 3, Append(acc, (c - 224) * 4096
                                     + (b[i + 1] - 128) * 64 + (b[i + 2] - 128)))
                   ELSE [ok |-> FALSE, text |-> <<>>]
         ELSE IF c \in 240..244
              THEN IF has(3) /\ IsCont(b[i + 1]) /\ IsCont(b[i + 2]) /\ IsCont(b[i + 3])
                      /\ (c = 240 => b[i + 1] >= 144)
                      /\ (c = 244 => b[i + 1] <= 143)
                   THEN Utf8Loop(b, i + 4, Append(acc, (c - 240) * 262144
                                     + (b[i + 1] - 128) * 4096 + (b[i + 2] - 128) * 64
                                     + (b[i + 3] - 128)))
                   ELSE [ok |-> FALSE, text |-> <<>>]
         ELSE [ok |-> FALSE, text |-> <<>>]

Utf8Decode(b) == Utf8Loop(b, 1, <<>>)

\* base64.b64decode(password).decode('utf-8'): the secret handed to
\* CommandManager.init, or the exception the expression raises
DecodeSecret(p) ==
    LET d == B64Decode(p) IN
    IF d.err # "" THEN [err |-> d.err, msg |-> d.msg, text |-> <<>>]
    ELSE LET u == Utf8Decode(d.bytes) IN
         IF u.ok THEN [err |-> "", msg |-> "", text |-> u.text]
         ELSE [err |-> "UnicodeDecodeError", msg |-> "invalid utf-8", text |-> <<>>]

\* ------------------------------------------------------------- exceptions
\* A raised exception: its class, and whether that class derives from
\* shell_executor_lib.CommandError (the libraries' hierarchy is not part
\* of this repository, so both cases are possible for a library class).
Exc(c, isCmd, m) == [cls |-> c, cmd |-> isCmd, msg |-> m]

NoExc == Exc("", FALSE, "")

\* isinstance(e, c), as an except clause tests it. binascii.Error and
\* UnicodeDecodeError are subclasses of the builtin ValueError.
IsInstance(e, c) ==
    \/ e.cls = c
    \/ c = "CommandError" /\ e.cmd
    \/ c = "ValueError" /\ e.cls \in {"binascii.Error", "UnicodeDecodeError"}

\* one except clause: the classes it names and the status it raises
Arm(classes, code) == [cls |-> classes, status |-> code]

\* index of the first except clause that catches e, 0 when none does
RECURSIVE FirstArm(_, _, _)
FirstArm(arms, e, i) ==
    IF i > Len(arms) THEN 0
    ELSE IF \E c \in arms[i].cls : IsInstance(e, c) THEN i
    ELSE FirstArm(arms, e, i + 1)

\* ------------------------------------------------------------- responses
Response(code, d, v, b) == [status |-> code, detail |-> d, via |-> v, body |-> b]

NoResp == Response(0, "", "", "")

\* raise HTTPException(status_code=code, detail=d)
HTTPException(code, d) == Response(code, d, "HTTPException", "")

\* an exception no except clause catches leaves the coroutine; the server
\* answers 500 with its own fixed text, not the exception's description
Unhandled == Response(500, "Internal Server Error", "unhandled", "")

\* try: ... except <arms>: raise HTTPException(status, detail=str(e))
Translate(arms, e) ==
    LET k == FirstArm(arms, e, 1) IN
    IF k = 0 THEN Unhandled ELSE HTTPException(arms[k].status, e.msg)

\* ---------------------------------------------------------------- routes
\* A route handler is described by
\*   status   the status_code of its decorator (the success code)
\*   mgrFirst TRUE when it constructs its manager before the None guards
\*   guard    "none": no guard; "path": guards on path parameters only
\*            (a path parameter is never None); "name": a guard that also
\*            tests the name field of the body
\*   ops      the domain-manager coroutines awaited inside try, in order
\*   arms     the except clauses of the try statement, in order
\*   ret      what is returned on success: "op" the value of the last
\*            operation, "request" a value of the request, "dict" a value
\*            built from the operation's value, "none", "welcome"
Route(code, first, g, o, a, rt) ==
    [status |-> code, mgrFirst |-> first, guard |-> g, ops |-> o, arms |-> a, ret |-> rt]

CE == Arm({"CommandError"}, 500)

make_login == Route(200, FALSE, "none", <<>>, <<>>, "welcome")

get_users == Route(200, FALSE, "none", <<"UserManager.get_users">>, <<CE>>, "op")

\* get_user repackaging the user it read
get_user_Repackaged ==
    Route(200, FALSE, "path", <<"UserManager.get_user">>,
          <<Arm({"UserNotExistError"}, 404), CE>>, "dict")

get_user ==
    Route(200, FALSE, "path", <<"UserManager.get_user">>,
          <<Arm({"UserNotExistError"}, 404), CE>>, "op")

post_user ==
    Route(201, TRUE, "name", <<"UserManager.add_user", "UserManager.get_user">>,
          <<Arm({"ValueError"}, 400),
            Arm({"PrivilegesError"}, 403),
            Arm({"GroupNotExistError"}, 400),
            Arm({"UserExistError"}, 409),
            CE>>, "op")

\* put_user without the read-back of the edited user
put_user_NoReadBack ==
    Route(200, TRUE, "path", <<"UserManager.edit_user">>,
          <<Arm({"ValueError", "GroupNotExistError"}, 400),
            Arm({"PrivilegesError"}, 403),
            Arm({"UserNotExistError"}, 404),
            Arm({"UserExistError"}, 409),
            Arm({"UserInUseError"}, 409),
            CE>>, "op")

put_user ==
    Route(200, TRUE, "path", <<"UserManager.edit_user", "UserManager.get_user">>,
          <<Arm({"ValueError", "GroupNotExistError"}, 400),
            Arm({"PrivilegesError"}, 403),
            Arm({"UserNotExistError"}, 404),
            Arm({"UserExistError"}, 409),
            Arm({"UserInUseError"}, 409),
            CE>>, "op")

delete_user ==
    Route(204, FALSE, "path", <<"UserManager.delete_user">>,
          <<Arm({"UserNotExistError"}, 404),
            Arm({"PrivilegesError"}, 403),
            Arm({"UserInUseError"}, 409),
            CE>>, "none")

get_groups == Route(200, FALSE, "none", <<"GroupManager.get_groups">>, <<CE>>, "op")

get_group ==
    Route(200, TRUE, "path", <<"GroupManager.get_group">>,
          <<Arm({"GroupNotExistError"}, 404), CE>>, "op")

\* post_group answering an existing group as a bad request
post_group_ExistsAs400 ==
    Route(201, TRUE, "name", <<"GroupManager.add_group", "GroupManager.get_group">>,
          <<Arm({"ValueError"}, 400),
            Arm({"PrivilegesError"}, 403),
            Arm({"UserNotExistError"}, 404),
            Arm({"GroupExistError"}, 400),
            CE>>, "op")

post_group ==
    Route(201, TRUE, "name", <<"GroupManager.add_group", "GroupManager.get_group">>,
          <<Arm({"ValueError"}, 400),
            Arm({"PrivilegesError"}, 403),
            Arm({"UserNotExistError"}, 404),
            Arm({"GroupExistError"}, 409),
            CE>>, "op")

put_group ==
    Route(200, TRUE, "name", <<"GroupManager.edit_group", "GroupManager.get_group">>,
          <<Arm({"ValueError"}, 400),
            Arm({"PrivilegesError"}, 403),
            Arm({"GroupNotExistError"}, 404),
            Arm({"GroupExistError"}, 409),
            CE>>, "op")

add_user_to_group ==
    Route(200, TRUE, "path", <<"GroupManager.add_user_to_group", "GroupManager.get_group">>,
          <<Arm({"PrivilegesError"}, 403),
            Arm({"GroupNotExistError"}, 404),
            Arm({"UserNotExistError"}, 404),
            CE>>, "op")

remove_user_from_group ==
    Route(200, TRUE, "path",
          <<"GroupManager.remove_user_from_group", "GroupManager.get_group">>,
          <<Arm({"PrivilegesError"}, 403),
            Arm({"GroupNotExistError"}, 404),
            Arm({"UserNotExistError"}, 404),
            CE>>, "op")

\* delete_group with the CommandError clause written first
delete_group_CommandErrorFirst ==
    Route(200, TRUE, "path", <<"GroupManager.delete_group">>,
          <<CE,
            Arm({"PrivilegesError"}, 403),
            Arm({"GroupNotExistError"}, 404)>>, "none")

delete_group ==
    Route(200, TRUE, "path", <<"GroupManager.delete_group">>,
          <<Arm({"PrivilegesError"}, 403),
            Arm({"GroupNotExistError"}, 404),
            CE>>, "none")

get_crontabs ==
    Route(200, FALSE, "none", <<"CrontabManager.get_cron_jobs">>,
          <<Arm({"NonexistentCrontabFileError"}, 404), CE>>, "op")

add_crontab ==
    Route(201, FALSE, "none", <<"CrontabManager.add_cron_job">>,
          <<Arm({"InvalidCronFormatError"}, 400), CE>>, "request")

update_crontab ==
    Route(200, FALSE, "none", <<"CrontabManager.edit_cron_job">>,
          <<Arm({"InvalidCronFormatError"}, 400),
            Arm({"NonexistentCrontabFileError"}, 404),
            CE>>, "request")

delete_crontab ==
    Route(204, FALSE, "none", <<"CrontabManager.delete_cron_job">>,
          <<Arm({"NonexistentCrontabFileError"}, 404), CE>>, "none")

get_host == Route(200, FALSE, "none", <<"HostManager.get_host">>, <<CE>>, "op")

get_disks == Route(200, FALSE, "none", <<"DiskManager.get_disks">>, <<CE>>, "op")

get_cpu == Route(200, FALSE, "none", <<"CpuManager.get_cpu">>, <<CE>>, "op")

get_cpu_use == Route(200, FALSE, "none", <<"CpuManager.get_cpu_use">>, <<CE>>, "op")

get_cpu_temperature ==
    Route(200, FALSE, "none", <<"CpuManager.get_cpu_temperature">>, <<CE>>, "op")

\* the GPU handlers with the CommandError clause written first
GpuArms_CommandErrorFirst ==
    <<CE, Arm({"NotValidGpuError"}, 422), Arm({"DriverNotFound"}, 422)>>

GpuArms ==
    <<Arm({"NotValidGpuError"}, 422), Arm({"DriverNotFound"}, 422), CE>>

get_gpu == Route(200, FALSE, "none", <<"GpuManager.init", "GpuManager.get_gpu">>, GpuArms, "op")

get_gpu_use ==
    Route(200, FALSE, "none", <<"GpuManager.init", "GpuManager.get_use">>, GpuArms, "op")

get_gpu_temperature ==
    Route(200, FALSE, "none", <<"GpuManager.init", "GpuManager.get_temperature">>,
          GpuArms, "op")

get_ram ==
    Route(200, FALSE, "none", <<"RamManager.get_ram">>,
          <<Arm({"PrivilegesError"}, 403), CE>>, "op")

get_ram_use == Route(200, FALSE, "none", <<"RamManager.get_use">>, <<CE>>, "dict")

\* the routers included by main.py, by handler name
Routes ==
    [make_login |-> make_login, get_users |-> get_users, get_user |-> get_user,
     post_user |-> post_user, put_user |-> put_user, delete_user |-> delete_user,
     get_groups |-> get_groups, get_group |-> get_group, post_group |-> post_group,
     put_group |-> put_group, add_user_to_group |-> add_user_to_group,
     remove_user_from_group |-> remove_user_from_group, delete_group |-> delete_group,
     get_crontabs |-> get_crontabs, add_crontab |-> add_crontab,
     update_crontab |-> update_crontab, delete_crontab |-> delete_crontab,
     get_host |-> get_host, get_disks |-> get_disks,
     get_cpu |-> get_cpu, get_cpu_use |-> get_cpu_use,
     get_cpu_temperature |-> get_cpu_temperature,
     get_gpu |-> get_gpu, get_gpu_use |-> get_gpu_use,
     get_gpu_temperature |-> get_gpu_temperature,
     get_ram |-> get_ram, get_ram_use |-> get_ram_use]

HandlerNames == DOMAIN Routes

\* auth_user with a base64 failure answered as an authentication failure
AuthArms_Base64As401 ==
    <<Arm({"binascii.Error"}, 401),
      Arm({"AuthenticationError"}, 401),
      CE>>

\* auth_user with an authentication failure answered as 403
AuthArms_AuthAs403 ==
    <<Arm({"binascii.Error"}, 400),
      Arm({"AuthenticationError"}, 403),
      CE>>

\* the except clauses of auth_user's try statement, in order
AuthArms ==
    <<Arm({"binascii.Error"}, 400),
      Arm({"AuthenticationError"}, 401),
      CE>>

\* The failure classes a handler's manager operations raise: the domain
\* failures its except clauses provide for, and PrivilegesError, which
\* comes from shell_executor_lib, the layer through which every manager
\* (each is built on the request's CommandManager) runs its commands.
CanRaise(h) ==
    UNION {Routes[h].arms[i].cls : i \in 1..Len(Routes[h].arms)} \cup {"PrivilegesError"}

\* The exceptions an operation of handler h may raise. CommandError is
\* itself; ValueError is a builtin and is no CommandError; any other
\* library class may or may not derive from CommandError.
Raisable(h) ==
    {Exc(c, b, c) : c \in CanRaise(h), b \in BOOLEAN} \
        {Exc("CommandError", FALSE, "CommandError"), Exc("ValueError", TRUE, "ValueError")}

\* ----------------------------------------------------------------- state
\* the requests in flight
Req == {1, 2}

VARIABLES
    pc,        \* pc[r]: "idle", "auth", "init", "handler", "op", "done"
    request,   \* request[r]: the route and the inputs of the request
    auth,      \* auth[r]: what auth_user did: calls of CommandManager.init, ...
    ctx,       \* ctx[r]: the CommandManager that auth_user returned
    mgr,       \* mgr[r]: the domain manager the handler constructed
    calls,     \* calls[r]: the manager operations the handler has invoked
    raised,    \* raised[r]: the exception raised inside the try statement
    resp,      \* resp[r]: the response
    value,     \* value[r]: what the last awaited manager operation returned
    returned,  \* returned[r]: what the handler returned
    applied    \* the mutations the managers have applied to the host: <<r, op>>

vars == <<pc, request, auth, ctx, mgr, calls, raised, resp, value, returned, applied>>

\* the part of the state that manager operations and handler returns write
dom == <<value, returned, applied>>

\* a Python value: None, a domain value (a pair of numbers stands for its
\* content), the dict get_ram_use builds, the text make_login builds, or
\* the manager object GpuManager.init yields
Val(k, v) == [kind |-> k, val |-> v]

None == Val("none", <<>>)

\* the domain values a manager operation can return, and the cron jobs a
\* request body can carry
Values == {Val("value", <<1, 2>>), Val("value", <<2, 1>>)}

\* the manager operations that change the host
Mutations ==
    {"UserManager.add_user", "UserManager.edit_user", "UserManager.delete_user",
     "GroupManager.add_group", "GroupManager.edit_group", "GroupManager.delete_group",
     "GroupManager.add_user_to_group", "GroupManager.remove_user_from_group",
     "CrontabManager.add_cron_job", "CrontabManager.edit_cron_job",
     "CrontabManager.delete_cron_job"}

\* what an operation returns: the handlers discard the value of a mutation
\* (None), GpuManager.init yields the manager, a query yields a domain value
Returns(op) ==
    IF op \in Mutations THEN {None}
    ELSE IF op = "GpuManager.init" THEN {Val("manager", <<>>)}
    ELSE Values

\* the value a handler returns on success, from the value v of its last
\* operation and the request q
ReturnValue(rt, v, q) ==
    CASE rt.ret = "op" -> v
      [] rt.ret = "request" -> q.payload
      [] rt.ret = "dict" -> Val("dict", <<v.val[1], v.val[2]>>)
      [] rt.ret = "none" -> None
      [] rt.ret = "welcome" -> Val("text", <<>>)

\* an HTTP header parameter: absent (None) or a value
NoUsername == [present |-> FALSE, val |-> ""]
NoPassword == [present |-> FALSE, val |-> <<>>]
Given(v) == [present |-> TRUE, val |-> v]

NoRequest ==
    [handler |-> "", username |-> NoUsername, password |-> NoPassword, shape |-> "ok",
     payload |-> None]

NoAuth == [initCalls |-> 0, initOk |-> FALSE, secret |-> <<>>, why |-> ""]

NoCtx == [valid |-> FALSE, user |-> "", owner |-> 0]

NoMgr == [built |-> FALSE, ctx |-> NoCtx]

\* the host's password database: the one account and its secret ("a")
Accounts == {"alice"}
SecretOf(u) == <<97>>

\* username header values: absent, empty, a known and an unknown identity
Usernames == {NoUsername, Given(""), Given("alice"), Given("bob")}

\* every password header value of at most MaxLen characters, or absent
Passwords ==
    {NoPassword} \cup {Given(p) : p \in UNION {[1..n -> Chars] : n \in 0..MaxLen}}

\* representative header values: absent; "YQ==" (alice's secret); "wrQ="
\* (another secret); "/w==" (not UTF-8); "YQ" (not base64)
SamplePasswords ==
    {NoPassword, Given(<<89, 81, 61, 61>>), Given(<<119, 114, 81, 61>>),
     Given(<<47, 119, 61, 61>>), Given(<<89, 81>>)}

SampleUsernames == {NoUsername, Given("alice"), Given("bob")}

\* the shapes a request to h can have: "null" when the name field of its
\* body is None
Shapes(h) == IF Routes[h].guard = "name" THEN {"ok", "null"} ELSE {"ok"}

\* the body values that matter to what h returns: the cron job of a
\* handler that returns its request's cron job
Payloads(h) == IF Routes[h].ret = "request" THEN Values ELSE {None}

Init ==
    /\ pc = [r \in Req |-> "idle"]
    /\ request = [r \in Req |-> NoRequest]
    /\ auth = [r \in Req |-> NoAuth]
    /\ ctx = [r \in Req |-> NoCtx]
    /\ mgr = [r \in Req |-> NoMgr]
    /\ calls = [r \in Req |-> <<>>]
    /\ raised = [r \in Req |-> NoExc]
    /\ resp = [r \in Req |-> NoResp]
    /\ value = [r \in Req |-> None]
    /\ returned = [r \in Req |-> None]
    /\ applied = {}

\* ---------------------------------------------------------------- actions
\* a request for route h arrives with its credential headers
Receive(r, H, U, P) ==
    /\ pc[r] = "idle"
    /\ \E h \in H, u \in U, p \in P :
         \E sh \in Shapes(h), b \in Payloads(h) :
            request' = [request EXCEPT ![r] =
                [handler |-> h, username |-> u, password |-> p, shape |-> sh,
                 payload |-> b]]
    /\ pc' = [pc EXCEPT ![r] = "auth"]
    /\ UNCHANGED <<auth, ctx, mgr, calls, raised, resp, dom>>

\* auth_user handing out a CommandManager for absent headers, without
\* calling CommandManager.init
auth_user_NoInit(r) ==
    /\ pc[r] = "auth"
    /\ LET u == request[r].username
           p == request[r].password
       IN
       IF ~u.present \/ ~p.present
       THEN /\ ctx' = [ctx EXCEPT ![r] = [valid |-> TRUE, user |-> u.val, owner |-> r]]
            /\ pc' = [pc EXCEPT ![r] = "handler"]
            /\ UNCHANGED <<auth, raised, resp>>
       ELSE LET d == DecodeSecret(p.val) IN
            IF d.err # ""
            THEN /\ raised' = [raised EXCEPT ![r] = Exc(d.err, FALSE, d.msg)]
                 /\ resp' = [resp EXCEPT ![r] = Translate(AuthArms, Exc(d.err, FALSE, d.msg))]
                 /\ pc' = [pc EXCEPT ![r] = "done"]
                 /\ UNCHANGED <<auth, ctx>>
            ELSE /\ auth' = [auth EXCEPT ![r].initCalls = @ + 1, ![r].secret = d.text]
                 /\ pc' = [pc EXCEPT ![r] = "init"]
                 /\ UNCHANGED <<raised, resp, ctx>>
    /\ UNCHANGED <<request, mgr, calls, dom>>

\* auth_user up to its await: the None test, the decoding of the password
\* and the call of CommandManager.init
auth_user(r) ==
    /\ pc[r] = "auth"
    /\ LET u == request[r].username
           p == request[r].password
       IN
       IF ~u.present \/ ~p.present
       THEN /\ resp' = [resp EXCEPT ![r] =
                            HTTPException(400, "Required headers are missing.")]
            /\ pc' = [pc EXCEPT ![r] = "done"]
            /\ UNCHANGED <<auth, raised>>
       ELSE LET d == DecodeSecret(p.val) IN
            IF d.err # ""
            THEN /\ raised' = [raised EXCEPT ![r] = Exc(d.err, FALSE, d.msg)]
                 /\ resp' = [resp EXCEPT ![r] = Translate(AuthArms, Exc(d.err, FALSE, d.msg))]
                 /\ pc' = [pc EXCEPT ![r] = "done"]
                 /\ UNCHANGED auth
            ELSE /\ auth' = [auth EXCEPT ![r].initCalls = @ + 1, ![r].secret = d.text]
                 /\ pc' = [pc EXCEPT ![r] = "init"]
                 /\ UNCHANGED <<raised, resp>>
    /\ UNCHANGED <<request, ctx, mgr, calls, dom>>

\* CommandManager.init handing out the CommandManager another request
\* obtained, when there is one, instead of a fresh one
InitReturn_SharedContext(r) ==
    /\ pc[r] = "init"
    /\ LET u == request[r].username.val
           good == u \in Accounts /\ auth[r].secret = SecretOf(u)
           others == {q \in Req : q # r /\ ctx[q].valid}
       IN
       \/ /\ good \/ others # {}
          /\ auth' = [auth EXCEPT ![r].initOk = TRUE]
          /\ ctx' = [ctx EXCEPT ![r] =
                        IF others # {} THEN ctx[CHOOSE q \in others : TRUE]
                        ELSE [valid |-> TRUE, user |-> u, owner |-> r]]
          /\ pc' = [pc EXCEPT ![r] = "handler"]
          /\ UNCHANGED <<raised, resp>>
       \/ /\ ~good
          /\ auth' = [auth EXCEPT ![r].why =
                         IF u \in Accounts THEN "wrong_secret" ELSE "unknown_identity"]
          /\ raised' = [raised EXCEPT ![r] =
                           Exc("AuthenticationError", FALSE, "AuthenticationError")]
          /\ resp' = [resp EXCEPT ![r] =
                         Translate(AuthArms, Exc("AuthenticationError", FALSE, "AuthenticationError"))]
          /\ pc' = [pc EXCEPT ![r] = "done"]
          /\ UNCHANGED ctx
       \/ /\ auth' = [auth EXCEPT ![r].why = "execution"]
          /\ raised' = [raised EXCEPT ![r] = Exc("CommandError", TRUE, "CommandError")]
          /\ resp' = [resp EXCEPT ![r] =
                         Translate(AuthArms, Exc("CommandError", TRUE, "CommandError"))]
          /\ pc' = [pc EXCEPT ![r] = "done"]
          /\ UNCHANGED ctx
    /\ UNCHANGED <<request, mgr, calls, dom>>

\* the client goes away while CommandManager.init is awaited: the
\* coroutine is cancelled at the await and auth_user returns nothing
Abort(r) ==
    /\ pc[r] = "init"
    /\ pc' = [pc EXCEPT ![r] = "aborted"]
    /\ UNCHANGED <<request, auth, ctx, mgr, calls, raised, resp, dom>>

\* CommandManager.init completes: it returns the CommandManager of the
\* identity, or raises AuthenticationError (identity unknown or secret
\* wrong) or CommandError (the check itself could not run)
InitReturn(r) ==
    /\ pc[r] = "init"
    /\ LET u == request[r].username.val
           good == u \in Accounts /\ auth[r].secret = SecretOf(u)
       IN
       \/ /\ good
          /\ auth' = [auth EXCEPT ![r].initOk = TRUE]
          /\ ctx' = [ctx EXCEPT ![r] = [valid |-> TRUE, user |-> u, owner |-> r]]
          /\ pc' = [pc EXCEPT ![r] = "handler"]
          /\ UNCHANGED <<raised, resp>>
       \/ /\ ~good
          /\ auth' = [auth EXCEPT ![r].why =
                         IF u \in Accounts THEN "wrong_secret" ELSE "unknown_identity"]
          /\ raised' = [raised EXCEPT ![r] =
                           Exc("AuthenticationError", FALSE, "AuthenticationError")]
          /\ resp' = [resp EXCEPT ![r] =
                         Translate(AuthArms, Exc("AuthenticationError", FALSE, "AuthenticationError"))]
          /\ pc' = [pc EXCEPT ![r] = "done"]
          /\ UNCHANGED ctx
       \/ /\ auth' = [auth EXCEPT ![r].why = "execution"]
          /\ raised' = [raised EXCEPT ![r] = Exc("CommandError", TRUE, "CommandError")]
          /\ resp' = [resp EXCEPT ![r] =
                         Translate(AuthArms, Exc("CommandError", TRUE, "CommandError"))]
          /\ pc' = [pc EXCEPT ![r] = "done"]
          /\ UNCHANGED ctx
    /\ UNCHANGED <<request, mgr, calls, dom>>

\* a handler that invokes its first operation without testing its body
Handler_NoGuard(r) ==
    /\ pc[r] = "handler"
    /\ ctx[r].valid
    /\ LET rt == Routes[request[r].handler]
           built == [built |-> TRUE, ctx |-> ctx[r]]
       IN
       IF rt.ops = <<>>
       THEN /\ resp' = [resp EXCEPT ![r] = Response(rt.status, "", "return", rt.ret)]
            /\ returned' = [returned EXCEPT ![r] = ReturnValue(rt, value[r], request[r])]
            /\ pc' = [pc EXCEPT ![r] = "done"]
            /\ UNCHANGED <<mgr, calls>>
       ELSE /\ mgr' = [mgr EXCEPT ![r] = IF rt.ops[1] = "GpuManager.init" THEN @ ELSE built]
            /\ calls' = [calls EXCEPT ![r] = <<rt.ops[1]>>]
            /\ pc' = [pc EXCEPT ![r] = "op"]
            /\ UNCHANGED <<resp, returned>>
    /\ UNCHANGED <<request, auth, ctx, raised, value, applied>>

\* The route handler is called with the CommandManager that auth_user
\* returned (Security(auth_user)) and runs to its first await: manager
\* construction, None guards, first manager operation.
Handler(r) ==
    /\ pc[r] = "handler"
    /\ ctx[r].valid
    /\ LET rt == Routes[request[r].handler]
           built == [built |-> TRUE, ctx |-> ctx[r]]
       IN
       IF rt.guard = "name" /\ request[r].shape = "null"
       THEN /\ mgr' = [mgr EXCEPT ![r] = IF rt.mgrFirst THEN built ELSE @]
            /\ resp' = [resp EXCEPT ![r] = HTTPException(400, "required")]
            /\ pc' = [pc EXCEPT ![r] = "done"]
            /\ UNCHANGED <<calls, returned>>
       ELSE IF rt.ops = <<>>
       THEN /\ resp' = [resp EXCEPT ![r] = Response(rt.status, "", "return", rt.ret)]
            /\ returned' = [returned EXCEPT ![r] = ReturnValue(rt, value[r], request[r])]
            /\ pc' = [pc EXCEPT ![r] = "done"]
            /\ UNCHANGED <<mgr, calls>>
       ELSE /\ mgr' = [mgr EXCEPT ![r] = IF rt.ops[1] = "GpuManager.init" THEN @ ELSE built]
            /\ calls' = [calls EXCEPT ![r] = <<rt.ops[1]>>]
            /\ pc' = [pc EXCEPT ![r] = "op"]
            /\ UNCHANGED <<resp, returned>>
    /\ UNCHANGED <<request, auth, ctx, raised, value, applied>>

\* the awaited manager operation returns: the handler awaits its next
\* operation, or returns and the route's status_code is sent
OpReturns(r) ==
    /\ pc[r] = "op"
    /\ LET rt == Routes[request[r].handler]
           k == Len(calls[r])
       IN
       \E v \in Returns(calls[r][k]) :
          /\ mgr' = [mgr EXCEPT ![r] = [built |-> TRUE, ctx |-> ctx[r]]]
          /\ value' = [value EXCEPT ![r] = v]
          /\ applied' = IF calls[r][k] \in Mutations
                         THEN applied \cup {<<r, calls[r][k]>>}
                         ELSE applied
          /\ IF k < Len(rt.ops)
             THEN /\ calls' = [calls EXCEPT ![r] = Append(@, rt.ops[k + 1])]
                  /\ UNCHANGED <<pc, resp, returned>>
             ELSE /\ resp' = [resp EXCEPT ![r] = Response(rt.status, "", "return", rt.ret)]
                  /\ returned' = [returned EXCEPT ![r] = ReturnValue(rt, v, request[r])]
                  /\ pc' = [pc EXCEPT ![r] = "done"]
                  /\ UNCHANGED calls
    /\ UNCHANGED <<request, auth, ctx, raised>>

\* a handler that awaits the operation again when it raised CommandError
OpRaises_Retry(r) ==
    /\ pc[r] = "op"
    /\ \E e \in Raisable(request[r].handler) :
          IF e.cls = "CommandError" /\ Len(calls[r]) < 3
          THEN /\ calls' = [calls EXCEPT ![r] = Append(@, @[Len(@)])]
               /\ UNCHANGED <<raised, resp, pc>>
          ELSE /\ raised' = [raised EXCEPT ![r] = e]
               /\ resp' = [resp EXCEPT ![r] = Translate(Routes[request[r].handler].arms, e)]
               /\ pc' = [pc EXCEPT ![r] = "done"]
               /\ UNCHANGED calls
    /\ UNCHANGED <<request, auth, ctx, mgr, dom>>

\* the awaited manager operation raises: the except clauses of the
\* handler translate the exception
OpRaises(r) ==
    /\ pc[r] = "op"
    /\ \E e \in Raisable(request[r].handler) :
          /\ raised' = [raised EXCEPT ![r] = e]
          /\ resp' = [resp EXCEPT ![r] = Translate(Routes[request[r].handler].arms, e)]
    /\ pc' = [pc EXCEPT ![r] = "done"]
    /\ UNCHANGED <<request, auth, ctx, mgr, calls, dom>>

\* one request to any route, with representative credentials
Next ==
    \/ Receive(1, HandlerNames, SampleUsernames, SamplePasswords)
    \/ auth_user(1)
    \/ InitReturn(1)
    \/ Handler(1)
    \/ OpReturns(1)
    \/ OpRaises(1)

Spec == Init /\ [][Next]_vars

\* one request to /user/login, with every credential pair of the bound
NextAuth ==
    \/ Receive(1, {"make_login"}, Usernames, Passwords)
    \/ auth_user(1)
    \/ InitReturn(1)
    \/ Handler(1)

SpecAuth == Init /\ [][NextAuth]_vars

\* two concurrent requests to /user/login, with representative credentials
AuthUsernames == SampleUsernames \cup {Given("")}

AuthPasswords == SamplePasswords \cup {Given(<<>>), Given(<<89>>), Given(<<233>>)}

NextAuthPair ==
    \E r \in Req :
        \/ Receive(r, {"make_login"}, AuthUsernames, AuthPasswords)
        \/ auth_user(r)
        \/ InitReturn(r)
        \/ Handler(r)

SpecAuthPair == Init /\ [][NextAuthPair]_vars

\* two concurrent requests to any routes, both with alice's credentials
NextPair ==
    \E r \in Req :
        \/ Receive(r, HandlerNames, {Given("alice")}, {Given(<<89, 81, 61, 61>>)})
        \/ auth_user(r)
        \/ InitReturn(r)
        \/ Handler(r)
        \/ OpReturns(r)
        \/ OpRaises(r)

SpecPair == Init /\ [][NextPair]_vars

\* two concurrent requests, with representative credentials, to a route
\* without manager, a read route and a mutating route; a request can be
\* aborted while its CommandManager.init is pending
ConcHandlers == {"make_login", "get_groups", "post_group"}

NextConc ==
    \E r \in Req :
        \/ Receive(r, ConcHandlers, SampleUsernames, SamplePasswords)
        \/ auth_user(r)
        \/ InitReturn(r)
        \/ Abort(r)
        \/ Handler(r)
        \/ OpReturns(r)
        \/ OpRaises(r)

SpecConc == Init /\ [][NextConc]_vars

\* ----------------------------------------------------------------- claims
Done(r) == pc[r] = "done"

\* a credential header is absent
Absent(r) == ~request[r].username.present \/ ~request[r].password.present

\* a credential header is absent or empty
AbsentOrEmpty(r) ==
    \/ Absent(r)
    \/ request[r].username.val = ""
    \/ request[r].password.val = <<>>

\* both headers are given and the password does not decode to a text
Undecodable(r) ==
    /\ ~Absent(r)
    /\ DecodeSecret(request[r].password.val).err # ""

MissingCredentials == HTTPException(400, "Required headers are missing.")

\* C1: a request whose username or password is absent or empty ends with
\* 400 'Required headers are missing.' and never calls CommandManager.init.
C1_EmptyOrAbsentFailsFast ==
    \A r \in Req :
        (pc[r] # "idle" /\ AbsentOrEmpty(r)) =>
            /\ auth[r].initCalls = 0
            /\ Done(r) => resp[r] = MissingCredentials

\* C2: a request whose password is given but does not decode (base64 or
\* UTF-8 step) is rejected by auth_user with 400 and never calls
\* CommandManager.init.
C2_UndecodableIs400 ==
    \A r \in Req :
        (pc[r] # "idle" /\ pc[r] # "auth" /\ Undecodable(r)) =>
            /\ auth[r].initCalls = 0
            /\ Done(r)
            /\ resp[r].status = 400
            /\ resp[r].via = "HTTPException"

\* C3 (as stated): the status code for absent credentials differs from the
\* status code for an undecodable password, and neither is 401.
C3_StatusCodesDiffer ==
    \A r1, r2 \in Req :
        (Done(r1) /\ Done(r2) /\ Absent(r1) /\ Undecodable(r2)) =>
            /\ resp[r1].status # resp[r2].status
            /\ resp[r1].status # 401
            /\ resp[r2].status # 401

\* C3 (amended): the response for absent credentials differs from the
\* response for an undecodable password in its status code or its detail
\* (the two status codes can both be 400), and neither status code is 401.
C3_ResponsesDiffer ==
    \A r1, r2 \in Req :
        (Done(r1) /\ Done(r2) /\ Absent(r1) /\ Undecodable(r2)) =>
            /\ <<resp[r1].status, resp[r1].detail>> # <<resp[r2].status, resp[r2].detail>>
            /\ resp[r1].status # 401
            /\ resp[r2].status # 401

\* both kinds of request have been answered, both with 400
C3_Witness ==
    \E r1, r2 \in Req :
        /\ Done(r1) /\ Done(r2) /\ Absent(r1) /\ Undecodable(r2)
        /\ resp[r1].status = 400 /\ resp[r2].status = 400
        /\ resp[r1].detail # resp[r2].detail

\* C4: every request whose well-encoded credentials CommandManager.init
\* rejects is answered 401, and a rejection for a wrong secret has the same
\* status code and class as a rejection for an unknown identity.
C4_RejectionIs401Uniformly ==
    /\ \A r \in Req :
          (Done(r) /\ auth[r].why \in {"wrong_secret", "unknown_identity"}) =>
              resp[r].status = 401
    /\ \A r1, r2 \in Req :
          (Done(r1) /\ Done(r2) /\ auth[r1].why = "wrong_secret"
                                /\ auth[r2].why = "unknown_identity") =>
              /\ resp[r1].status = resp[r2].status
              /\ resp[r1].via = resp[r2].via

\* a known identity was rejected for its secret and an unknown one too
C4_Witness ==
    \E r1, r2 \in Req :
        /\ Done(r1) /\ Done(r2)
        /\ auth[r1].why = "wrong_secret" /\ request[r1].username.val \in Accounts
        /\ auth[r2].why = "unknown_identity" /\ request[r2].username.val \notin Accounts
        /\ auth[r1].initCalls = 1 /\ auth[r2].initCalls = 1

\* C5: a handler body runs, a manager is constructed and a manager
\* operation is invoked only after CommandManager.init returned
\* successfully in the same request; when auth_user raises, no manager is
\* constructed or called and no context exists.
C5_HandlerOnlyAfterInit ==
    \A r \in Req :
        /\ (\/ pc[r] = "op"
            \/ mgr[r].built
            \/ calls[r] # <<>>
            \/ ctx[r].valid
            \/ resp[r].via = "return"
            \/ resp[r].detail = "required")
              => (auth[r].initOk /\ auth[r].initCalls = 1 /\ ctx[r].owner = r)
        /\ (Done(r) /\ ~auth[r].initOk)
              => (~mgr[r].built /\ calls[r] = <<>> /\ ctx[r] = NoCtx
                  /\ resp[r].status \in {400, 401, 500})

\* a manager operation has been invoked after a successful init
C5_Witness ==
    \E r \in Req :
        /\ auth[r].initOk /\ mgr[r].built /\ Len(calls[r]) = 2
        /\ mgr[r].ctx = ctx[r]

\* C6: a PrivilegesError raised by a manager operation is answered 403 at
\* every endpoint.
C6_PrivilegesIs403 ==
    \A r \in Req :
        (Done(r) /\ raised[r].cls = "PrivilegesError") => resp[r].status = 403

NotFoundErrors == {"UserNotExistError", "GroupNotExistError", "NonexistentCrontabFileError"}

\* C7: a not-found failure raised by a manager operation is answered 404
\* in every handler in which it is raised.
C7_NotFoundIs404 ==
    \A r \in Req :
        (Done(r) /\ raised[r].cls \in NotFoundErrors) => resp[r].status = 404

\* C8: two handlers that receive the same failure answer with the same
\* status code.
C8_StatusIsFunctionOfTag ==
    \A r1, r2 \in Req :
        (Done(r1) /\ Done(r2) /\ raised[r1] # NoExc /\ raised[r1] = raised[r2]) =>
            resp[r1].status = resp[r2].status

\* C9: every failure raised in a handler or in auth_user becomes an
\* HTTPException whose detail is the failure's description, with status
\* 500 when no specific except clause names the failure.
C9_TranslationIsTotal ==
    \A r \in Req :
        (Done(r) /\ raised[r] # NoExc) =>
            LET arms == IF auth[r].initOk THEN Routes[request[r].handler].arms
                        ELSE AuthArms
            IN
            /\ resp[r].via = "HTTPException"
            /\ resp[r].detail = raised[r].msg
            /\ (\A i \in 1..Len(arms) : raised[r].cls \notin arms[i].cls)
                  => resp[r].status = 500

Deletes == {"delete_user", "delete_group", "delete_crontab", "remove_user_from_group"}

Creates == {"post_user", "post_group", "add_crontab"}

\* C10: a successful handler answers 201 when it creates, 204 without a
\* body when it deletes, 200 otherwise.
C10_SuccessCodes ==
    \A r \in Req :
        (Done(r) /\ resp[r].via = "return") =>
            LET h == request[r].handler IN
            IF h \in Deletes THEN resp[r].status = 204 /\ resp[r].body = "none"
            ELSE IF h \in Creates THEN resp[r].status = 201
            ELSE resp[r].status = 200

\* C11: when post_group's add_group raises GroupExistError the response is
\* 409 Conflict, no further manager operation is invoked in the request
\* and the request has applied no mutation to the host.
C11_ExistingGroupIs409 ==
    \A r \in Req :
        (/\ Done(r)
         /\ request[r].handler = "post_group"
         /\ raised[r].cls = "GroupExistError"
         /\ Len(calls[r]) = 1) =>
            /\ resp[r].status = 409
            /\ resp[r].via = "HTTPException"
            /\ calls[r] = <<"GroupManager.add_group">>
            /\ \A op \in Mutations : <<r, op>> \notin applied

\* add_group has raised GroupExistError, whether or not it is a CommandError
C11_Witness ==
    \E r \in Req :
        /\ Done(r)
        /\ request[r].handler = "post_group"
        /\ raised[r] = Exc("GroupExistError", TRUE, "GroupExistError")
        /\ calls[r] = <<"GroupManager.add_group">>
        /\ resp[r].status = 409

GpuHandlers == {"get_gpu", "get_gpu_use", "get_gpu_temperature"}

\* C12: in each GPU handler a NotValidGpuError or DriverNotFound, raised by
\* GpuManager.init or by the query after it, is answered 422, never 5xx.
C12_GpuFailureIs422 ==
    \A r \in Req :
        (/\ Done(r)
         /\ request[r].handler \in GpuHandlers
         /\ raised[r].cls \in {"NotValidGpuError", "DriverNotFound"}) =>
            /\ resp[r].status = 422
            /\ resp[r].via = "HTTPException"

\* one request failed in GpuManager.init and another in the query, with
\* failures that are CommandErrors too
C12_Witness ==
    \E r1, r2 \in Req :
        /\ Done(r1) /\ Done(r2)
        /\ request[r1].handler \in GpuHandlers /\ request[r2].handler \in GpuHandlers
        /\ raised[r1] = Exc("DriverNotFound", TRUE, "DriverNotFound")
        /\ raised[r2] = Exc("NotValidGpuError", TRUE, "NotValidGpuError")
        /\ calls[r1] = <<"GpuManager.init">>
        /\ Len(calls[r2]) = 2
        /\ resp[r1].status = 422 /\ resp[r2].status = 422

\* C13 (as stated): a request that reaches the Execute step has invoked
\* exactly one manager method when it responds.
C13_ExactlyOneOperation ==
    \A r \in Req :
        (Done(r) /\ calls[r] # <<>>) => Len(calls[r]) = 1

\* the handlers whose try block awaits two manager operations
TwoStep ==
    {"post_user", "put_user", "post_group", "put_group", "add_user_to_group",
     "remove_user_from_group"} \cup GpuHandlers

\* C13 (amended): a request that reaches the Execute step invokes the
\* manager operations of its handler in order, each once: one operation, or
\* two for the handlers of TwoStep (the mutation and then the read-back;
\* GpuManager.init and then the query), the second only after the first
\* returned; a request that succeeds has invoked them all.
C13_OperationsInOrder ==
    \A r \in Req :
        calls[r] # <<>> =>
            LET ops == Routes[request[r].handler].ops IN
            /\ Len(calls[r]) <= Len(ops)
            /\ calls[r] = SubSeq(ops, 1, Len(calls[r]))
            /\ Len(ops) = IF request[r].handler \in TwoStep THEN 2 ELSE 1
            /\ (Done(r) /\ resp[r].via = "return") => calls[r] = ops
            /\ (Len(calls[r]) = 2 /\ ops[1] \in Mutations) => <<r, ops[1]>> \in applied

\* put_user has succeeded after edit_user and get_user
C13_Witness ==
    \E r \in Req :
        /\ Done(r) /\ resp[r].via = "return"
        /\ request[r].handler = "put_user"
        /\ calls[r] = <<"UserManager.edit_user", "UserManager.get_user">>

RequiredField == HTTPException(400, "required")

\* C14 (as stated): a request whose body name is null ends with the
\* invalid-format 400 before authentication is attempted and before a
\* manager is constructed or called.
C14_ShapeBeforeAuth ==
    \A r \in Req :
        (pc[r] # "idle" /\ request[r].shape = "null") =>
            /\ auth[r].initCalls = 0
            /\ ~mgr[r].built
            /\ calls[r] = <<>>
            /\ Done(r) => resp[r] = RequiredField

\* C14 (amended): the order is authenticate, validate shape, execute. A
\* request whose body name is null is authenticated first and can end with
\* auth_user's response; once authenticated it ends with the
\* invalid-format 400, its manager constructed but no operation invoked.
C14_AuthBeforeShape ==
    \A r \in Req :
        (pc[r] # "idle" /\ request[r].shape = "null") =>
            /\ pc[r] # "op"
            /\ calls[r] = <<>>
            /\ \A op \in Mutations : <<r, op>> \notin applied
            /\ Done(r) =>
                 IF auth[r].initOk
                 THEN /\ resp[r] = RequiredField
                      /\ auth[r].initCalls = 1
                      /\ mgr[r].built
                 ELSE /\ resp[r] # RequiredField
                      /\ resp[r].status \in {400, 401, 500}
                      /\ ~mgr[r].built

\* an authenticated request with a null name was answered 400 after its
\* manager was constructed
C14_Witness ==
    \E r \in Req :
        /\ Done(r) /\ request[r].shape = "null"
        /\ auth[r].initOk /\ auth[r].initCalls = 1
        /\ mgr[r].built
        /\ resp[r] = RequiredField

\* the except clauses that answered request r: auth_user's until
\* CommandManager.init has returned, the handler's after it
ArmsOf(r) == IF auth[r].initOk THEN Routes[request[r].handler].arms ELSE AuthArms

\* in a chain of except clauses the CommandError clause is the last one
GenericLast(arms) ==
    arms # <<>> =>
        /\ arms[Len(arms)] = CE
        /\ \A i \in 1..(Len(arms) - 1) : "CommandError" \notin arms[i].cls

\* C15: in every handler and in auth_user the CommandError clause comes
\* after every specific clause, so a failure that a specific clause names
\* is answered with that clause's status, never 500, also when the failure
\* is a CommandError as well.
C15_SpecificBeforeGeneric ==
    \A r \in Req :
        (Done(r) /\ raised[r] # NoExc /\ raised[r].cls # "CommandError") =>
            LET arms == ArmsOf(r)
                named == {i \in 1..Len(arms) : raised[r].cls \in arms[i].cls}
            IN named # {} =>
                  /\ GenericLast(arms)
                  /\ \E i \in named : resp[r].status = arms[i].status
                  /\ resp[r].status # 500
                  /\ resp[r].via = "HTTPException"

\* delete_group answered 404 for a GroupNotExistError that is a
\* CommandError too
C15_Witness ==
    \E r \in Req :
        /\ Done(r) /\ request[r].handler = "delete_group"
        /\ raised[r] = Exc("GroupNotExistError", TRUE, "GroupNotExistError")
        /\ resp[r].status = 404

\* C16 (as stated): on success a handler returns exactly the value its
\* manager operation returned.
C16_ReturnsDomainValueVerbatim ==
    \A r \in Req :
        (Done(r) /\ resp[r].via = "return" /\ calls[r] # <<>>) =>
            returned[r] = value[r]

\* C16 (amended): on success a handler returns the value of its last
\* manager operation unchanged, except get_ram_use, which returns a dict
\* built from the operation's (size, use) pair, add_crontab and
\* update_crontab, which return the cron job of the request body, the
\* delete handlers, which return nothing, and make_login, which calls no
\* manager and returns its welcome text.
C16_ReturnsValueOrDocumentedForm ==
    \A r \in Req :
        (Done(r) /\ resp[r].via = "return") =>
            LET h == request[r].handler IN
            IF h = "get_ram_use"
            THEN returned[r] = Val("dict", <<value[r].val[1], value[r].val[2]>>)
            ELSE IF h \in {"add_crontab", "update_crontab"}
            THEN returned[r] = request[r].payload /\ request[r].payload \in Values
            ELSE IF h \in {"delete_user", "delete_group", "delete_crontab"}
            THEN returned[r] = None
            ELSE IF h = "make_login"
            THEN returned[r] = Val("text", <<>>) /\ calls[r] = <<>>
            ELSE returned[r] = value[r] /\ value[r] \in Values

\* get_user has returned the user that UserManager.get_user returned
C16_Witness ==
    \E r \in Req :
        /\ Done(r) /\ resp[r].via = "return"
        /\ request[r].handler = "get_user"
        /\ value[r] = Val("value", <<2, 1>>)
        /\ returned[r] = value[r]

\* C17: under any interleaving each request makes its own call of
\* CommandManager.init, its manager operations use only the context that
\* call returned to it, and the context of a request whose init has not
\* completed, failed or was aborted is reachable by no request.
C17_ContextIsRequestLocal ==
    \A r \in Req :
        /\ ctx[r].valid =>
              /\ ctx[r].owner = r
              /\ ctx[r].user = request[r].username.val
              /\ auth[r].initOk /\ auth[r].initCalls = 1
        /\ mgr[r].built => (mgr[r].ctx = ctx[r] /\ ctx[r].valid)
        /\ calls[r] # <<>> => (mgr[r].built /\ mgr[r].ctx.owner = r)
        /\ (pc[r] \in {"idle", "auth", "init", "aborted"} \/ ~auth[r].initOk) =>
              /\ ctx[r] = NoCtx
              /\ \A q \in Req : mgr[q].ctx.owner # r

\* one request runs a manager operation on its context while the other
\* was aborted during its own init
C17_Witness ==
    \E r1, r2 \in Req :
        /\ r1 # r2
        /\ pc[r1] = "op" /\ mgr[r1].built /\ mgr[r1].ctx.owner = r1
        /\ pc[r2] = "aborted" /\ auth[r2].initCalls = 1

NoDup(q) == \A i, j \in 1..Len(q) : i # j => q[i] # q[j]

\* C18: within a request CommandManager.init and each manager operation
\* are attempted at most once; a failure ends the request with an error
\* response and nothing is invoked again.
C18_NoRetries ==
    \A r \in Req :
        /\ auth[r].initCalls <= 1
        /\ NoDup(calls[r])
        /\ calls[r] # <<>> =>
              Len(calls[r]) <= Len(Routes[request[r].handler].ops)
        /\ raised[r] # NoExc =>
              /\ Done(r)
              /\ resp[r].status \in 400..599
              /\ resp[r].via # "return"
        /\ (raised[r] # NoExc /\ ~auth[r].initOk) => calls[r] = <<>>

\* delete_user's only operation failed once and the request ended with 500
C18_Witness ==
    \E r \in Req :
        /\ Done(r) /\ request[r].handler = "delete_user"
        /\ raised[r].cls = "CommandError"
        /\ calls[r] = <<"UserManager.delete_user">>
        /\ auth[r].initCalls = 1
        /\ resp[r].status = 500

MutatingHandlers ==
    {"post_user", "post_group", "put_user", "put_group", "add_user_to_group",
     "remove_user_from_group"}

\* C19: when a mutating handler ends with an error response, the mutation
\* it requested has not been applied.
C19_ErrorMeansNotApplied ==
    \A r \in Req :
        (Done(r) /\ request[r].handler \in MutatingHandlers /\ resp[r].status >= 400) =>
            \A op \in Mutations : <<r, op>> \notin applied

====
